---- MODULE Spec2Model ----
(***************************************************************************)
(* State-machine model of the ConversationSection component               *)
(* (src/src/components/Conversation/ConversationSection.tsx): the          *)
(* recording session, the speaker state, the conversation log, the         *)
(* suggestion pipeline and the host event subscriptions.                   *)
(*                                                                         *)
(* Every handler is one action per synchronous segment: a handler runs     *)
(* from its entry (or from the settlement of the promise it awaits) to its *)
(* next await, on the single JavaScript thread.  A handler's closure       *)
(* (the render's isRecording / currentSpeaker it captured) is carried in   *)
(* the task record, since later state changes do not reach it.             *)
(***************************************************************************)
EXTENDS Integers, Sequences, FiniteSets, TLC

\* ---------------------------------------------------------------- bounds
MaxStarts == 1      \* startRecording() calls in flight, and timers alive, at once
MaxDuration == 1    \* ticks counted before the model stops counting
MaxLog == 1         \* entries the local log may hold beside a recording session
MaxMirror == 2      \* entries the local log may hold when driven by the host
MaxToggles == 1     \* toggleSpeaker() calls in flight at once
MaxHostMessages == 2 \* identifiers the host assigns
MaxEvents == 2      \* push events in flight at once

\* ---------------------------------------------------------------- values
Roles == {"interviewer", "interviewee"}

\* Texts the transcription collaborator may return.
Texts == {"Q1", "Q2"}

NoText == "none"

\* aiSuggestions = null (line 54)
NoSuggestion == [suggestions |-> <<>>, reasoning |-> "null"]

\* The AISuggestion the collaborator returns for a question (lines 17-20).
SuggestionFor(question) == [suggestions |-> <<question>>, reasoning |-> question]

\* ConversationMessage (lines 9-15); the host assigns id and timestamp.
Message(id, speaker, text, timestamp, edited) ==
    [id |-> id, speaker |-> speaker, text |-> text, timestamp |-> timestamp,
     edited |-> edited]

\* Messages the host pushes on message-added while a session runs.
AddedMessages == {Message(1, "interviewee", "A1", 1, FALSE)}

\* Messages the host pushes on message-updated: the text revised, the edited
\* flag set and the timestamp that of the revision. (Under LogSpec the host
\* pushes the stored message with its timestamp kept.)
UpdatedMessages == {Message(1, "interviewee", "A2", 2, TRUE)}

\* The four host subscriptions and the local listener (lines 64-92).
AllSubscriptions ==
    {"messageAdded", "speakerChanged", "messageUpdated", "cleared", "toggle-recording"}

\* Initial values of the React state in the first render (lines 51-56).
InitialIsRecording == FALSE
InitialSpeaker == "interviewee"

\* Calls a handler segment makes on its collaborators.
Call(api) == [api |-> api, text |-> NoText, speaker |-> "none"]
AppendCall(text, speaker) ==
    [api |-> "addConversationMessage", text |-> text, speaker |-> speaker]
SuggestionCall(question) ==
    [api |-> "getAnswerSuggestions", text |-> question, speaker |-> "none"]

VARIABLES
    messages,            \* useState messages (line 51)
    isRecording,         \* useState isRecording (line 52)
    currentSpeaker,      \* useState currentSpeaker (line 53)
    aiSuggestions,       \* useState aiSuggestions (line 54)
    isProcessing,        \* useState isProcessing (line 55)
    recordingDuration,   \* useState recordingDuration (line 56)
    audioRecorderRef,    \* audioRecorderRef.current # null (line 58)
    recorderIsRecording, \* AudioRecorder.getIsRecording()
    durationIntervalRef, \* durationIntervalRef.current, 0 = null (line 59)
    intervals,           \* timers scheduled by setInterval and not cleared
    subscriptions,       \* live host subscriptions and listener
    loadTask,            \* loadConversation: "pending" or "done"
    pendingStarts,       \* handleStartRecording invocations awaiting startRecording()
    stopTask,            \* the handleStopRecording invocation in flight
    pendingToggles,      \* handleToggleSpeaker invocations awaiting toggleSpeaker()
    lastOp,              \* the handler segment that ran last
    calls,               \* the collaborator calls that segment made, in order
    invalidated,         \* an invalidating event ran since the suggestion
                         \* request in flight was sent
    hostMessages,        \* the host's canonical message sequence
    hostNextId,          \* the identifier the host assigns next
    hostEvents,          \* push events sent and not yet delivered, in order
    loadReply            \* the getConversation() result on its way back

vars == <<messages, isRecording, currentSpeaker, aiSuggestions, isProcessing,
          recordingDuration, audioRecorderRef, recorderIsRecording,
          durationIntervalRef, intervals, subscriptions, loadTask,
          pendingStarts, stopTask, pendingToggles, lastOp, calls,
          invalidated, hostMessages, hostNextId, hostEvents, loadReply>>

hostVars == <<hostMessages, hostNextId, hostEvents, loadReply>>

sessionVars == <<isRecording, isProcessing, recordingDuration>>
recorderVars == <<audioRecorderRef, recorderIsRecording>>
timerVars == <<durationIntervalRef, intervals>>

NoStopTask == [pc |-> "idle", speaker |-> InitialSpeaker, text |-> NoText]

\* No getConversation() result is on its way back.
NoReply == [state |-> "none", messages |-> <<>>]

mounted == subscriptions # {}

\* State after the first render and the run of the activation effect
\* (lines 51-59, 61-92): loadConversation is awaiting getConversation().
Init ==
    /\ messages = <<>>
    /\ isRecording = InitialIsRecording
    /\ currentSpeaker = InitialSpeaker
    /\ aiSuggestions = NoSuggestion
    /\ isProcessing = FALSE
    /\ recordingDuration = 0
    /\ audioRecorderRef = FALSE
    /\ recorderIsRecording = FALSE
    /\ durationIntervalRef = 0
    /\ intervals = {}
    /\ subscriptions = AllSubscriptions
    /\ loadTask = "pending"
    /\ pendingStarts = 0
    /\ stopTask = NoStopTask
    /\ pendingToggles = 0
    /\ lastOp = "init"
    /\ calls = <<Call("getConversation")>>
    /\ invalidated = FALSE
    /\ hostMessages = <<>>
    /\ hostNextId = 1
    /\ hostEvents = <<>>
    /\ loadReply = NoReply

\* The segments that invalidate a suggestion: a speaker toggle, a
\* speaker-changed or conversation-cleared event, the start of a recording.
InvalidatingOps == {"toggled", "speakerChanged", "conversationCleared", "startResolved"}

\* Whether, after the segment op, an invalidating event has run since the
\* suggestion request in flight (awaited at line 186) was sent.
StaleAfter(op) == stopTask.pc = "suggest" /\ (invalidated \/ op \in InvalidatingOps)

\* ------------------------------------------------------- AudioRecorder
\* AudioRecorder.startRecording(): resolves (capture begun) or rejects
\* (permission denied, device unavailable).
StartRecordingOutcomes == {"resolved", "rejected"}

\* AudioRecorder.stopRecording(): resolves with the audio blob or rejects.
StopRecordingOutcomes == {"resolved", "rejected"}

\* ------------------------------------------------------- host (electronAPI)
\* transcribeAudio: throws, returns an unsuccessful result, or returns a text.
TranscribeOutcomes == {"throw", "fail"} \cup Texts

\* addConversationMessage(text, speaker) -> void / error.
AppendOutcomes == {"returned", "throw"}

\* getAnswerSuggestions: throws, returns an unsuccessful result, or succeeds.
SuggestionOutcomes == {"throw", "fail", "success"}

\* toggleSpeaker: throws, returns success = false, or returns the new speaker.
ToggleOutcomes == {"throw", "fail"} \cup Roles

\* getConversation: throws, returns success = false, or returns the stored log.
StoredLogs == {<<>>, <<Message(1, "interviewee", "A1", 1, FALSE)>>}

\* ------------------------------------------------------- handleStartRecording
\* Lines 122-128: allocate the recorder if needed, call startRecording(), await.
HandleStartRecording(op) ==
    /\ pendingStarts < MaxStarts
    /\ audioRecorderRef' = TRUE
    /\ pendingStarts' = pendingStarts + 1
    /\ lastOp' = op
    /\ invalidated' = StaleAfter(op)
    /\ calls' = <<Call("startRecording")>>
    /\ UNCHANGED <<messages, currentSpeaker, aiSuggestions, sessionVars,
                   recorderIsRecording, timerVars, subscriptions, loadTask,
                   stopTask, pendingToggles>>

\* The suggestion shown once startRecording() has resolved (lines 129-135
\* leave aiSuggestions alone).
SuggestionAfterStart == aiSuggestions

\* The handle setInterval returns: a timer id not in use.
FreeTimerIds == (1..MaxStarts) \ intervals
NewTimerId == CHOOSE id \in FreeTimerIds : \A other \in FreeTimerIds : id <= other

\* Lines 129-135: startRecording() resolved.  isRecording := true,
\* duration := 0, a new interval is scheduled and stored in the ref.
StartRecordingResolved ==
    /\ pendingStarts > 0
    /\ FreeTimerIds # {}
    /\ pendingStarts' = pendingStarts - 1
    /\ recorderIsRecording' = TRUE
    /\ isRecording' = TRUE
    /\ recordingDuration' = 0
    /\ durationIntervalRef' = NewTimerId
    /\ intervals' = intervals \cup {NewTimerId}
    /\ aiSuggestions' = SuggestionAfterStart
    /\ lastOp' = "startResolved"
    /\ invalidated' = StaleAfter("startResolved")
    /\ calls' = <<Call("setInterval")>>
    /\ UNCHANGED <<messages, currentSpeaker, isProcessing, audioRecorderRef,
                   subscriptions, loadTask, stopTask, pendingToggles>>

\* Variant: the flag is set before startRecording() is awaited, so a
\* rejection leaves it set.
StartRecordingRejectedFlagSet ==
    /\ pendingStarts > 0
    /\ pendingStarts' = pendingStarts - 1
    /\ isRecording' = TRUE
    /\ lastOp' = "startRejected"
    /\ invalidated' = StaleAfter("startRejected")
    /\ calls' = <<Call("alert")>>
    /\ UNCHANGED <<messages, currentSpeaker, aiSuggestions, isProcessing,
                   recordingDuration, recorderVars, timerVars, subscriptions,
                   loadTask, stopTask, pendingToggles>>

\* Lines 136-139: startRecording() rejected.  The error is logged and alerted.
StartRecordingRejected ==
    /\ pendingStarts > 0
    /\ pendingStarts' = pendingStarts - 1
    /\ lastOp' = "startRejected"
    /\ invalidated' = StaleAfter("startRejected")
    /\ calls' = <<Call("alert")>>
    /\ UNCHANGED <<messages, currentSpeaker, aiSuggestions, sessionVars,
                   recorderVars, timerVars, subscriptions, loadTask, stopTask,
                   pendingToggles>>

\* Lines 133-135: an interval fires, setRecordingDuration(prev => prev + 1).
Tick ==
    /\ intervals # {}
    /\ recordingDuration < MaxDuration
    /\ recordingDuration' = recordingDuration + 1
    /\ lastOp' = "tick"
    /\ invalidated' = StaleAfter("tick")
    /\ calls' = <<>>
    /\ UNCHANGED <<messages, isRecording, currentSpeaker, aiSuggestions,
                   isProcessing, recorderVars, timerVars, subscriptions,
                   loadTask, pendingStarts, stopTask, pendingToggles>>

\* ------------------------------------------------------- handleStopRecording
\* Line 143: the guard reads the isRecording of the closure the handler was
\* created in.
StopGuardPasses(cIsRecording) == audioRecorderRef /\ cIsRecording

\* Lines 142-153: the synchronous part of handleStopRecording, run with the
\* closure values cIsRecording and cSpeaker.
HandleStopRecording(cIsRecording, cSpeaker, op) ==
    /\ lastOp' = op
    /\ invalidated' = StaleAfter(op)
    /\ IF StopGuardPasses(cIsRecording)
       THEN /\ isRecording' = FALSE
            /\ IF durationIntervalRef # 0
               THEN /\ intervals' = intervals \ {durationIntervalRef}
                    /\ durationIntervalRef' = 0
               ELSE UNCHANGED <<intervals, durationIntervalRef>>
            /\ isProcessing' = TRUE
            /\ stopTask' = [pc |-> "capture", speaker |-> cSpeaker, text |-> NoText]
            /\ calls' = <<Call("stopRecording")>>
            /\ UNCHANGED recordingDuration
       ELSE /\ calls' = <<>>
            /\ UNCHANGED <<sessionVars, intervals, durationIntervalRef, stopTask>>
    /\ UNCHANGED <<messages, currentSpeaker, aiSuggestions, recorderVars,
                   subscriptions, loadTask, pendingStarts, pendingToggles>>

\* Lines 178-181: finally.
StopFinally ==
    /\ isProcessing' = FALSE
    /\ recordingDuration' = 0
    /\ stopTask' = NoStopTask

\* Lines 175-177: catch.
StopCatch == calls' = <<Call("alert")>>

\* Lines 153-156: stopRecording() settles; on success the handler awaits
\* audioBlob.arrayBuffer() (line 156), which returns to the event loop.
StopRecordingSettled ==
    /\ stopTask.pc = "capture"
    /\ recorderIsRecording' = FALSE
    /\ \E outcome \in StopRecordingOutcomes :
         IF outcome = "resolved"
         THEN /\ stopTask' = [stopTask EXCEPT !.pc = "buffer"]
              /\ lastOp' = "captureResolved"
              /\ invalidated' = StaleAfter("captureResolved")
              /\ calls' = <<>>
              /\ UNCHANGED <<isProcessing, recordingDuration>>
         ELSE /\ StopCatch
              /\ StopFinally
              /\ lastOp' = "captureRejected"
              /\ invalidated' = StaleAfter("captureRejected")
    /\ UNCHANGED <<messages, isRecording, currentSpeaker, aiSuggestions,
                   audioRecorderRef, timerVars, subscriptions, loadTask,
                   pendingStarts, pendingToggles>>

\* audioBlob.arrayBuffer(): resolves with the bytes or rejects (the blob
\* cannot be read).
ArrayBufferOutcomes == {"resolved", "rejected"}

\* Lines 156-159, 175-181: arrayBuffer() settles; on success transcribeAudio
\* is called, on rejection catch and finally run.
ArrayBufferSettled ==
    /\ stopTask.pc = "buffer"
    /\ \E outcome \in ArrayBufferOutcomes :
         IF outcome = "resolved"
         THEN /\ stopTask' = [stopTask EXCEPT !.pc = "transcribe"]
              /\ lastOp' = "bufferResolved"
              /\ invalidated' = StaleAfter("bufferResolved")
              /\ calls' = <<Call("transcribeAudio")>>
              /\ UNCHANGED <<isProcessing, recordingDuration>>
         ELSE /\ StopCatch
              /\ StopFinally
              /\ lastOp' = "bufferRejected"
              /\ invalidated' = StaleAfter("bufferRejected")
    /\ UNCHANGED <<messages, isRecording, currentSpeaker, aiSuggestions,
                   recorderVars, timerVars, subscriptions, loadTask,
                   pendingStarts, pendingToggles>>

\* Variant: the append request carries the speaker current when it is sent.
AppendSpeakerLive(task) == currentSpeaker

\* Line 165: the speaker the append request carries is the closure's.
AppendSpeaker(task) == task.speaker

\* Lines 159-165: transcribeAudio settles; on a successful result the append
\* request is sent.
TranscribeSettled ==
    /\ stopTask.pc = "transcribe"
    /\ \E outcome \in TranscribeOutcomes :
         CASE outcome = "throw" ->
                /\ StopCatch
                /\ StopFinally
                /\ lastOp' = "transcribeThrew"
                /\ invalidated' = StaleAfter("transcribeThrew")
           [] outcome = "fail" ->
                /\ StopFinally
                /\ lastOp' = "transcribeFailed"
                /\ invalidated' = StaleAfter("transcribeFailed")
                /\ calls' = <<>>
           [] OTHER ->
                /\ calls' = <<AppendCall(outcome, AppendSpeaker(stopTask))>>
                /\ stopTask' = [stopTask EXCEPT !.pc = "append", !.text = outcome]
                /\ lastOp' = "transcribed"
                /\ invalidated' = StaleAfter("transcribed")
                /\ UNCHANGED <<isProcessing, recordingDuration>>
    /\ UNCHANGED <<messages, isRecording, currentSpeaker, aiSuggestions,
                   recorderVars, timerVars, subscriptions, loadTask,
                   pendingStarts, pendingToggles>>

\* Line 168: suggestions are requested for an interviewer message.
NeedsSuggestions(speaker) == speaker = "interviewer"

\* Variant: the stop() handler also writes the transcribed message into the
\* local log when the append request settles.
AppendSettledWritesLog ==
    /\ stopTask.pc = "append"
    /\ \E outcome \in AppendOutcomes :
         CASE outcome = "throw" ->
                /\ StopCatch
                /\ StopFinally
                /\ lastOp' = "appendThrew"
                /\ invalidated' = StaleAfter("appendThrew")
                /\ UNCHANGED aiSuggestions
           [] outcome = "returned" /\ NeedsSuggestions(stopTask.speaker) ->
                /\ calls' = <<SuggestionCall(stopTask.text)>>
                /\ stopTask' = [stopTask EXCEPT !.pc = "suggest"]
                /\ lastOp' = "appendReturned"
                /\ invalidated' = StaleAfter("appendReturned")
                /\ UNCHANGED <<isProcessing, recordingDuration, aiSuggestions>>
           [] OTHER ->
                /\ aiSuggestions' = NoSuggestion
                /\ StopFinally
                /\ lastOp' = "appendReturned"
                /\ invalidated' = StaleAfter("appendReturned")
                /\ calls' = <<>>
    /\ messages' = Append(messages, Message(0, stopTask.speaker, stopTask.text, 0, FALSE))
    /\ UNCHANGED <<isRecording, currentSpeaker, recorderVars, timerVars,
                   subscriptions, loadTask, pendingStarts, pendingToggles>>

\* Lines 165-173 and 186: addConversationMessage settles; then either the
\* suggestion request is sent or the suggestion is cleared.
AppendSettled ==
    /\ stopTask.pc = "append"
    /\ \E outcome \in AppendOutcomes :
         CASE outcome = "throw" ->
                /\ StopCatch
                /\ StopFinally
                /\ lastOp' = "appendThrew"
                /\ invalidated' = StaleAfter("appendThrew")
                /\ UNCHANGED aiSuggestions
           [] outcome = "returned" /\ NeedsSuggestions(stopTask.speaker) ->
                /\ calls' = <<SuggestionCall(stopTask.text)>>
                /\ stopTask' = [stopTask EXCEPT !.pc = "suggest"]
                /\ lastOp' = "appendReturned"
                /\ invalidated' = StaleAfter("appendReturned")
                /\ UNCHANGED <<isProcessing, recordingDuration, aiSuggestions>>
           [] OTHER ->
                /\ aiSuggestions' = NoSuggestion
                /\ StopFinally
                /\ lastOp' = "appendReturned"
                /\ invalidated' = StaleAfter("appendReturned")
                /\ calls' = <<>>
    /\ UNCHANGED <<messages, isRecording, currentSpeaker, recorderVars, timerVars,
                   subscriptions, loadTask, pendingStarts, pendingToggles>>

\* ------------------------------------------------------- fetchAISuggestions
SuggestionOp(outcome) ==
    IF outcome = "success" THEN "suggested"
    ELSE IF outcome = "fail" THEN "suggestionFailed"
    ELSE "suggestionThrew"

\* Lines 186-193: getAnswerSuggestions settles; a successful result is
\* displayed, a failure or throw is only logged. fetchAISuggestions returns
\* and handleStopRecording, awaiting it at line 169, resumes one microtask
\* later.
SuggestionsSettled ==
    /\ stopTask.pc = "suggest"
    /\ \E outcome \in SuggestionOutcomes :
         /\ IF outcome = "success"
            THEN aiSuggestions' = SuggestionFor(stopTask.text)
            ELSE UNCHANGED aiSuggestions
         /\ lastOp' = SuggestionOp(outcome)
         /\ invalidated' = StaleAfter(SuggestionOp(outcome))
    /\ stopTask' = [stopTask EXCEPT !.pc = "finally"]
    /\ calls' = <<>>
    /\ UNCHANGED <<messages, isRecording, currentSpeaker, isProcessing,
                   recordingDuration, recorderVars, timerVars, subscriptions,
                   loadTask, pendingStarts, pendingToggles>>

\* Lines 178-181: handleStopRecording resumes after await
\* fetchAISuggestions(text) and runs its finally block.
StopAfterSuggestions ==
    /\ stopTask.pc = "finally"
    /\ StopFinally
    /\ lastOp' = "stopReturned"
    /\ invalidated' = StaleAfter("stopReturned")
    /\ calls' = <<>>
    /\ UNCHANGED <<messages, isRecording, currentSpeaker, aiSuggestions,
                   recorderVars, timerVars, subscriptions, loadTask,
                   pendingStarts, pendingToggles>>

\* Between the return of fetchAISuggestions and the resumption of
\* handleStopRecording only promise continuations already queued run: no
\* click, signal, push event, timer or cleanup starts in that gap.
TaskMayStart == stopTask.pc # "finally"

\* ------------------------------------------------------- record button
\* Lines 225-227: the record button, disabled while isProcessing, wired to
\* handleStopRecording while isRecording and to handleStartRecording otherwise.
\* The handler is the one of the current render.
RecordButtonStart ==
    /\ mounted
    /\ ~isProcessing
    /\ ~isRecording
    /\ HandleStartRecording("buttonStart")

RecordButtonStop ==
    /\ mounted
    /\ ~isProcessing
    /\ isRecording
    /\ HandleStopRecording(isRecording, currentSpeaker, "buttonStop")

\* ------------------------------------------------------- toggle-recording
\* Lines 83-90: handleToggleRecording reads the recorder's state and calls the
\* handleStopRecording / handleStartRecording of the first render, the ones the
\* activation effect (empty dependency list, line 104) closed over.
ToggleRecordingSignal ==
    /\ "toggle-recording" \in subscriptions
    /\ IF audioRecorderRef /\ recorderIsRecording
       THEN HandleStopRecording(InitialIsRecording, InitialSpeaker, "signalStop")
       ELSE HandleStartRecording("signalStart")


\* ------------------------------------------------------- handleToggleSpeaker
\* Lines 237-239: the speaker button is disabled while isRecording or
\* isProcessing.
SpeakerButtonEnabled == ~(isRecording \/ isProcessing)

\* Lines 196-198: the click sends toggleSpeaker() and awaits it.
HandleToggleSpeaker ==
    /\ mounted
    /\ SpeakerButtonEnabled
    /\ pendingToggles < MaxToggles
    /\ pendingToggles' = pendingToggles + 1
    /\ lastOp' = "toggleClick"
    /\ invalidated' = StaleAfter("toggleClick")
    /\ calls' = <<Call("toggleSpeaker")>>
    /\ UNCHANGED <<messages, currentSpeaker, aiSuggestions, sessionVars,
                   recorderVars, timerVars, subscriptions, loadTask,
                   pendingStarts, stopTask>>

\* Lines 198-205: toggleSpeaker() settles; on success the returned speaker is
\* adopted and the suggestion cleared.
ToggleSpeakerSettled ==
    /\ pendingToggles > 0
    /\ pendingToggles' = pendingToggles - 1
    /\ \E outcome \in ToggleOutcomes :
         IF outcome \in Roles
         THEN /\ currentSpeaker' = outcome
              /\ aiSuggestions' = NoSuggestion
              /\ lastOp' = "toggled"
              /\ invalidated' = StaleAfter("toggled")
         ELSE /\ lastOp' = "toggleFailed"
              /\ invalidated' = StaleAfter("toggleFailed")
              /\ UNCHANGED <<currentSpeaker, aiSuggestions>>
    /\ calls' = <<>>
    /\ UNCHANGED <<messages, sessionVars, recorderVars, timerVars, subscriptions,
                   loadTask, pendingStarts, stopTask>>

\* ------------------------------------------------------- host push events
\* Variant: message-added skips a message whose identifier the log holds.
OnConversationMessageAddedOnce(message) ==
    /\ "messageAdded" \in subscriptions
    /\ messages' = IF \E i \in 1..Len(messages) : messages[i].id = message.id
                   THEN messages
                   ELSE Append(messages, message)
    /\ lastOp' = "messageAdded"
    /\ invalidated' = StaleAfter("messageAdded")
    /\ calls' = <<>>
    /\ UNCHANGED <<isRecording, currentSpeaker, aiSuggestions, isProcessing,
                   recordingDuration, recorderVars, timerVars, subscriptions,
                   loadTask, pendingStarts, stopTask, pendingToggles>>

\* Lines 64-67: message-added appends the message to the log.
OnConversationMessageAdded(message) ==
    /\ "messageAdded" \in subscriptions
    /\ messages' = Append(messages, message)
    /\ lastOp' = "messageAdded"
    /\ invalidated' = StaleAfter("messageAdded")
    /\ calls' = <<>>
    /\ UNCHANGED <<isRecording, currentSpeaker, aiSuggestions, isProcessing,
                   recordingDuration, recorderVars, timerVars, subscriptions,
                   loadTask, pendingStarts, stopTask, pendingToggles>>

\* The suggestion shown after a speaker-changed event (lines 69-71 leave
\* aiSuggestions alone).
SuggestionAfterSpeakerChanged == aiSuggestions

\* Lines 69-71: speaker-changed adopts the pushed speaker.
OnSpeakerChanged(speaker) ==
    /\ "speakerChanged" \in subscriptions
    /\ currentSpeaker' = speaker
    /\ aiSuggestions' = SuggestionAfterSpeakerChanged
    /\ lastOp' = "speakerChanged"
    /\ invalidated' = StaleAfter("speakerChanged")
    /\ calls' = <<>>
    /\ UNCHANGED <<messages, sessionVars, recorderVars, timerVars, subscriptions,
                   loadTask, pendingStarts, stopTask, pendingToggles>>

\* Line 74: prev.map(msg => msg.id === message.id ? message : msg).
UpdateLog(prev, message) ==
    [i \in 1..Len(prev) |-> IF prev[i].id = message.id THEN message ELSE prev[i]]

\* Lines 73-75: message-updated replaces the entries with the pushed id.
OnConversationMessageUpdated(message) ==
    /\ "messageUpdated" \in subscriptions
    /\ messages' = UpdateLog(messages, message)
    /\ lastOp' = "messageUpdated"
    /\ invalidated' = StaleAfter("messageUpdated")
    /\ calls' = <<>>
    /\ UNCHANGED <<isRecording, currentSpeaker, aiSuggestions, isProcessing,
                   recordingDuration, recorderVars, timerVars, subscriptions,
                   loadTask, pendingStarts, stopTask, pendingToggles>>

\* Variant: conversation-cleared empties the log and leaves the suggestion.
OnConversationClearedKeepsSuggestion ==
    /\ "cleared" \in subscriptions
    /\ messages' = <<>>
    /\ lastOp' = "conversationCleared"
    /\ invalidated' = StaleAfter("conversationCleared")
    /\ calls' = <<>>
    /\ UNCHANGED <<isRecording, currentSpeaker, aiSuggestions, isProcessing,
                   recordingDuration, recorderVars, timerVars, subscriptions,
                   loadTask, pendingStarts, stopTask, pendingToggles>>

\* Lines 77-80: conversation-cleared empties the log and the suggestion.
OnConversationCleared ==
    /\ "cleared" \in subscriptions
    /\ messages' = <<>>
    /\ aiSuggestions' = NoSuggestion
    /\ lastOp' = "conversationCleared"
    /\ invalidated' = StaleAfter("conversationCleared")
    /\ calls' = <<>>
    /\ UNCHANGED <<isRecording, currentSpeaker, isProcessing, recordingDuration,
                   recorderVars, timerVars, subscriptions, loadTask,
                   pendingStarts, stopTask, pendingToggles>>

\* ------------------------------------------------------- loadConversation
\* Lines 112-116: getConversation() returned success; the result replaces
\* the log.
LoadConversationSucceeded(stored) ==
    /\ loadTask = "pending"
    /\ loadTask' = "done"
    /\ messages' = stored
    /\ lastOp' = "loaded"
    /\ invalidated' = StaleAfter("loaded")
    /\ calls' = <<>>
    /\ UNCHANGED <<isRecording, currentSpeaker, aiSuggestions, isProcessing,
                   recordingDuration, recorderVars, timerVars, subscriptions,
                   pendingStarts, stopTask, pendingToggles>>

\* Lines 113, 117-119: getConversation() returned success = false or threw;
\* the error is only logged.
LoadConversationFailed ==
    /\ loadTask = "pending"
    /\ loadTask' = "done"
    /\ lastOp' = "loadFailed"
    /\ invalidated' = StaleAfter("loadFailed")
    /\ calls' = <<>>
    /\ UNCHANGED <<messages, isRecording, currentSpeaker, aiSuggestions,
                   isProcessing, recordingDuration, recorderVars, timerVars,
                   subscriptions, pendingStarts, stopTask, pendingToggles>>

\* ------------------------------------------------------- teardown
\* Lines 94-103: the effect's cleanup releases the four subscriptions and the
\* listener and clears the interval the ref holds.
Teardown ==
    /\ mounted
    /\ subscriptions' = {}
    /\ intervals' = IF durationIntervalRef # 0
                    THEN intervals \ {durationIntervalRef}
                    ELSE intervals
    /\ lastOp' = "teardown"
    /\ invalidated' = StaleAfter("teardown")
    /\ calls' = <<>>
    /\ UNCHANGED <<messages, isRecording, currentSpeaker, aiSuggestions,
                   isProcessing, recordingDuration, recorderVars,
                   durationIntervalRef, loadTask, pendingStarts, stopTask,
                   pendingToggles>>

\* ------------------------------------------------------- specification
\* The component driven by its user, its collaborators' results and any push
\* event the host may send; the host's store is left out of the picture.
Next ==
    \/ RecordButtonStart /\ UNCHANGED hostVars
    \/ RecordButtonStop /\ UNCHANGED hostVars
    \/ TaskMayStart /\ ToggleRecordingSignal /\ UNCHANGED hostVars
    \/ StartRecordingResolved /\ UNCHANGED hostVars
    \/ StartRecordingRejected /\ UNCHANGED hostVars
    \/ TaskMayStart /\ Tick /\ UNCHANGED hostVars
    \/ StopRecordingSettled /\ UNCHANGED hostVars
    \/ ArrayBufferSettled /\ UNCHANGED hostVars
    \/ TranscribeSettled /\ UNCHANGED hostVars
    \/ AppendSettled /\ UNCHANGED hostVars
    \/ SuggestionsSettled /\ UNCHANGED hostVars
    \/ StopAfterSuggestions /\ UNCHANGED hostVars
    \/ HandleToggleSpeaker /\ UNCHANGED hostVars
    \/ ToggleSpeakerSettled /\ UNCHANGED hostVars
    \/ \E message \in AddedMessages :
           /\ TaskMayStart
           /\ Len(messages) < MaxLog
           /\ OnConversationMessageAdded(message)
           /\ UNCHANGED hostVars
    \/ \E speaker \in Roles :
           TaskMayStart /\ OnSpeakerChanged(speaker) /\ UNCHANGED hostVars
    \/ \E message \in UpdatedMessages :
           TaskMayStart /\ OnConversationMessageUpdated(message) /\ UNCHANGED hostVars
    \/ TaskMayStart /\ OnConversationCleared /\ UNCHANGED hostVars
    \/ \E stored \in StoredLogs :
           LoadConversationSucceeded(stored) /\ UNCHANGED hostVars
    \/ LoadConversationFailed /\ UNCHANGED hostVars
    \/ TaskMayStart /\ Teardown /\ UNCHANGED hostVars

Spec == Init /\ [][Next]_vars

\* ------------------------------------------------------- host store
\* The host keeps the canonical message sequence, answers getConversation()
\* with a snapshot of it, and pushes one event per change. Push events are
\* delivered in the order sent; the getConversation() result travels back on
\* its own promise and may arrive before or after any of them.
HostEvent(type, message) == [type |-> type, message |-> message]

\* A host step runs no handler of the component.
HostStep ==
    /\ lastOp' = "host"
    /\ calls' = <<>>
    /\ UNCHANGED <<messages, isRecording, currentSpeaker, aiSuggestions,
                   isProcessing, recordingDuration, recorderVars, timerVars,
                   subscriptions, loadTask, pendingStarts, stopTask,
                   pendingToggles, invalidated>>

\* The host stores a new message under a fresh identifier and pushes
\* message-added.
HostAddMessage ==
    /\ hostNextId <= MaxHostMessages
    /\ Len(hostEvents) < MaxEvents
    /\ LET message == Message(hostNextId, "interviewee", "A1", hostNextId, FALSE)
       IN /\ hostMessages' = Append(hostMessages, message)
          /\ hostEvents' = Append(hostEvents, HostEvent("messageAdded", message))
    /\ hostNextId' = hostNextId + 1
    /\ UNCHANGED loadReply
    /\ HostStep

\* The host revises the text of a stored message, keeping its identifier,
\* speaker and timestamp, and pushes message-updated.
HostUpdateMessage ==
    /\ Len(hostEvents) < MaxEvents
    /\ \E i \in 1..Len(hostMessages) :
          /\ ~hostMessages[i].edited
          /\ LET message == [hostMessages[i] EXCEPT !.text = "A2", !.edited = TRUE]
             IN /\ hostMessages' = [hostMessages EXCEPT ![i] = message]
                /\ hostEvents' = Append(hostEvents,
                                        HostEvent("messageUpdated", message))
    /\ UNCHANGED <<hostNextId, loadReply>>
    /\ HostStep

\* The host empties its store and pushes conversation-cleared.
HostClearConversation ==
    /\ hostMessages # <<>>
    /\ Len(hostEvents) < MaxEvents
    /\ hostMessages' = <<>>
    /\ hostEvents' = Append(hostEvents, HostEvent("cleared", Message(0, "none", "none", 0, FALSE)))
    /\ UNCHANGED <<hostNextId, loadReply>>
    /\ HostStep

\* getConversation() outcomes: the snapshot, or a failure (success = false
\* or a rejection).
GetConversationOutcomes == {"success", "failure"}

\* The host answers the getConversation() call made at line 112.
HostGetConversation ==
    /\ loadTask = "pending"
    /\ loadReply = NoReply
    /\ \E outcome \in GetConversationOutcomes :
          loadReply' = [state |-> outcome,
                        messages |-> IF outcome = "success" THEN hostMessages
                                     ELSE <<>>]
    /\ UNCHANGED <<hostMessages, hostNextId, hostEvents>>
    /\ HostStep

\* The oldest push event in flight reaches its subscription.
DeliverMessageAdded ==
    /\ hostEvents # <<>>
    /\ Head(hostEvents).type = "messageAdded"
    /\ Len(messages) < MaxMirror
    /\ OnConversationMessageAdded(Head(hostEvents).message)
    /\ hostEvents' = Tail(hostEvents)
    /\ UNCHANGED <<hostMessages, hostNextId, loadReply>>

DeliverMessageUpdated ==
    /\ hostEvents # <<>>
    /\ Head(hostEvents).type = "messageUpdated"
    /\ OnConversationMessageUpdated(Head(hostEvents).message)
    /\ hostEvents' = Tail(hostEvents)
    /\ UNCHANGED <<hostMessages, hostNextId, loadReply>>

DeliverCleared ==
    /\ hostEvents # <<>>
    /\ Head(hostEvents).type = "cleared"
    /\ OnConversationCleared
    /\ hostEvents' = Tail(hostEvents)
    /\ UNCHANGED <<hostMessages, hostNextId, loadReply>>

\* The getConversation() result reaches loadConversation (lines 112-119).
DeliverLoadReply ==
    /\ loadReply # NoReply
    /\ IF loadReply.state = "success"
       THEN LoadConversationSucceeded(loadReply.messages)
       ELSE LoadConversationFailed
    /\ loadReply' = NoReply
    /\ UNCHANGED <<hostMessages, hostNextId, hostEvents>>

\* The component's log driven by the host's store: the initial load and the
\* push events, with the recording session left at rest.
LogNext ==
    \/ HostAddMessage
    \/ HostUpdateMessage
    \/ HostClearConversation
    \/ HostGetConversation
    \/ DeliverMessageAdded
    \/ DeliverMessageUpdated
    \/ DeliverCleared
    \/ DeliverLoadReply

LogSpec == Init /\ [][LogNext]_vars

\* The ranges of the component's state under Spec.
TypeOK ==
    /\ isRecording \in BOOLEAN /\ isProcessing \in BOOLEAN
    /\ currentSpeaker \in Roles
    /\ recordingDuration \in 0..MaxDuration
    /\ Len(messages) <= MaxLog
    /\ durationIntervalRef \in 0..MaxStarts
    /\ intervals \subseteq 1..MaxStarts
    /\ pendingStarts \in 0..MaxStarts
    /\ pendingToggles \in 0..MaxToggles
    /\ stopTask.pc \in {"idle", "capture", "buffer", "transcribe", "append",
                        "suggest", "finally"}
    /\ (stopTask.pc # "idle") <=> isProcessing

\* ------------------------------------------------------- session states
Idle == ~isRecording /\ ~isProcessing
Recording == isRecording /\ ~isProcessing
Processing == isProcessing

\* handleStopRecording returns in this step (its finally block has run).
StopReturns == stopTask.pc # "idle" /\ stopTask'.pc = "idle"

\* ------------------------------------------------------- claims
\* C1: once stop() has been invoked and every call it awaits has returned or
\* thrown, the session is Idle (recording flag false, processing flag false)
\* with duration 0: the step in which handleStopRecording returns leaves the
\* session Idle with duration 0.
C1_StopEndsIdle ==
    [][StopReturns => (~isRecording' /\ ~isProcessing' /\ recordingDuration' = 0)]_vars

\* C2: the response of a suggestion request becomes the current suggestion
\* only if no invalidating event (speaker toggle or speaker-changed,
\* conversation-cleared, start of a new recording) occurred between the
\* request and the response.
C2_StaleSuggestionDiscarded ==
    (lastOp = "suggested" /\ aiSuggestions # NoSuggestion) => ~invalidated

\* The segments in which start() is invoked (record button, toggle-recording
\* signal).
StartOps == {"buttonStart", "signalStart"}

\* C3: start() invoked while the session is Recording or Processing is
\* rejected without side effects: no capture is begun, no tick is scheduled,
\* the flags and the duration are unchanged; and the recording flag and the
\* processing flag are never both true.
C3_StartRejectedUnlessIdle ==
    /\ [][(lastOp' \in StartOps /\ ~Idle) =>
            /\ calls' = <<>>
            /\ UNCHANGED <<isRecording, isProcessing, recordingDuration,
                           pendingStarts, intervals, durationIntervalRef>>]_vars
    /\ [](~(isRecording /\ isProcessing))

\* C4: toggle() is rejected while the session is Recording or Processing: no
\* toggleSpeaker request is sent in either state, and the active speaker
\* changes through toggle() only when the session is Idle.
C4_ToggleOnlyWhenIdle ==
    [][/\ (lastOp' = "toggleClick" /\ ~Idle) =>
            (calls' = <<>> /\ currentSpeaker' = currentSpeaker)
       /\ (lastOp' = "toggled" /\ currentSpeaker' # currentSpeaker) => Idle]_vars

\* C5: in the state reached by a successful start() (Idle to Recording) the
\* displayed suggestion is empty.  The start() considered is invoked from
\* Idle and its capture begins at once.
C5_StartClearsSuggestion ==
    [][(Idle /\ lastOp \in StartOps /\ lastOp' = "startResolved" /\ Recording') =>
            aiSuggestions' = NoSuggestion]_vars

\* C6: in the state reached by a successful toggle() and in the state reached
\* by applying a speaker-changed event the displayed suggestion is empty.
C6_SpeakerChangeClearsSuggestion ==
    lastOp \in {"toggled", "speakerChanged"} => aiSuggestions = NoSuggestion

\* C7: a conversation-cleared event applied while the session is Recording
\* empties the log and the suggestion and leaves the recording flag, the
\* processing flag, the duration, the scheduled tick and the active speaker
\* unchanged; the session is still Recording.
C7_ClearedWhileRecording ==
    [][(lastOp' = "conversationCleared" /\ Recording) =>
            /\ messages' = <<>>
            /\ aiSuggestions' = NoSuggestion
            /\ UNCHANGED <<isRecording, isProcessing, recordingDuration,
                           durationIntervalRef, intervals, currentSpeaker>>
            /\ Recording']_vars

\* A conversation-cleared event has just been applied during a recording whose
\* tick has fired.
C7_Witness ==
    /\ lastOp = "conversationCleared"
    /\ Recording
    /\ recordingDuration > 0
    /\ durationIntervalRef \in intervals
    /\ messages = <<>>
    /\ aiSuggestions = NoSuggestion

\* The segments the toggle-recording signal runs.
SignalOps == {"signalStart", "signalStop"}

\* C8: the toggle-recording signal delivered while Idle performs start();
\* delivered while Recording it performs stop(): the tick is cancelled, the
\* session enters Processing and the capture is finalised for transcription.
C8_SignalTogglesRecording ==
    [][/\ (lastOp' \in SignalOps /\ Idle) => calls' = <<Call("startRecording")>>
       /\ (lastOp' \in SignalOps /\ Recording) =>
            /\ ~isRecording'
            /\ isProcessing'
            /\ durationIntervalRef' = 0
            /\ durationIntervalRef \notin intervals'
            /\ calls' = <<Call("stopRecording")>>]_vars

AppendCalls(cs) == {i \in 1..Len(cs) : cs[i].api = "addConversationMessage"}
SuggestionCalls(cs) == {i \in 1..Len(cs) : cs[i].api = "getAnswerSuggestions"}

\* C9: the append request carries the speaker that was active when stop() was
\* invoked: a stop() that passes its guard carries the speaker current at
\* that moment, and the append request sent for it carries that speaker,
\* whatever the current speaker has become.
C9_AppendCarriesSpeakerAtStop ==
    [][/\ (stopTask.pc = "idle" /\ stopTask'.pc = "capture") =>
            stopTask'.speaker = currentSpeaker
       /\ \A i \in AppendCalls(calls') : calls'[i].speaker = stopTask.speaker]_vars

\* An append request has just been sent under the speaker of the stop(),
\* after the current speaker changed during Processing.
C9_Witness ==
    /\ lastOp = "transcribed"
    /\ \E i \in AppendCalls(calls) : calls[i].speaker = stopTask.speaker
    /\ currentSpeaker # stopTask.speaker

\* The append stage of a stop() ends in this step (the request returned or
\* threw).
AppendEnds == stopTask.pc = "append" /\ stopTask'.pc # "append"

\* C10: per stop() with a successful transcription of T exactly one append
\* request for T is sent; a suggestion request is sent if and only if the
\* speaker is interviewer and the append succeeded, and then it is one
\* request carrying T; when the speaker is interviewee no suggestion request
\* is sent and any displayed suggestion is cleared.
C10_AppendAndSuggestionRequests ==
    [][/\ (stopTask.pc = "transcribe" /\ stopTask'.pc = "append") =>
            /\ stopTask'.text \in Texts
            /\ calls' = <<AppendCall(stopTask'.text, stopTask.speaker)>>
       /\ AppendCalls(calls') # {} =>
            (stopTask.pc = "transcribe" /\ stopTask'.pc = "append")
       /\ SuggestionCalls(calls') # {} <=>
            (AppendEnds /\ lastOp' = "appendReturned"
                /\ stopTask.speaker = "interviewer")
       /\ SuggestionCalls(calls') # {} => calls' = <<SuggestionCall(stopTask.text)>>
       /\ (AppendEnds /\ stopTask.speaker = "interviewee") =>
            (SuggestionCalls(calls') = {} /\ aiSuggestions' = NoSuggestion)]_vars

\* C11: when startRecording() rejects, the session stays as it was -- an Idle
\* session with duration 0 remains Idle with duration 0 -- no tick is
\* scheduled and no timer handle is stored, and the failure is raised
\* through the blocking notification (alert).
C11_RejectedStartStaysIdle ==
    [][lastOp' = "startRejected" =>
          /\ UNCHANGED <<isRecording, isProcessing, recordingDuration,
                         durationIntervalRef, intervals>>
          /\ (Idle /\ recordingDuration = 0) =>
                (Idle' /\ recordingDuration' = 0 /\ intervals' = intervals)
          /\ calls' = <<Call("alert")>>]_vars

\* A start() invoked from Idle has just been rejected: the session is Idle
\* with duration 0, no tick is scheduled and the alert was raised.
C11_Witness ==
    /\ lastOp = "startRejected"
    /\ Idle
    /\ recordingDuration = 0
    /\ intervals = {}
    /\ durationIntervalRef = 0
    /\ calls = <<Call("alert")>>

\* C12: a transcription failure, whether transcribeAudio() throws or returns
\* an unsuccessful result, is surfaced to the user (alert), sends no append
\* request and no suggestion request, and the session returns to Idle.
C12_TranscriptionFailureSurfaced ==
    lastOp \in {"transcribeThrew", "transcribeFailed"} =>
        /\ calls = <<Call("alert")>>
        /\ AppendCalls(calls) = {} /\ SuggestionCalls(calls) = {}
        /\ Idle

\* The step in which a suggestion request fails (throws or returns an
\* unsuccessful result); the enclosing stop() returns in the step after.
SuggestionFails == lastOp' \in {"suggestionFailed", "suggestionThrew"}

\* C13: a suggestion failure, thrown or returned, never raises a user-facing
\* notification and does not affect the session state: the current
\* suggestion, the log and the active speaker are unchanged by it, and the
\* enclosing stop() still returns the session to Idle.
C13_SuggestionFailureSilent ==
    [][/\ SuggestionFails =>
            /\ calls' = <<>>
            /\ UNCHANGED <<aiSuggestions, messages, currentSpeaker>>
            /\ stopTask'.pc = "finally"
       /\ (lastOp \in {"suggestionFailed", "suggestionThrew"} /\ StopReturns) =>
            Idle']_vars

\* C14: after teardown nothing of the component remains live: the four host
\* subscriptions and the toggle-recording listener are released and, in
\* every state after teardown, no periodic duration tick is scheduled,
\* whatever the session state was at teardown.
C14_NothingLiveAfterTeardown ==
    /\ lastOp = "teardown" => subscriptions = {}
    /\ subscriptions = {} => intervals = {}

\* C15: in every reachable state at most one periodic tick is scheduled, it
\* is the one the timer handle references, and it is scheduled only while
\* the session is Recording, so no scheduled tick is left uncancelled; the
\* duration never advances while the session is Idle or Processing.
C15_OneTickOnlyWhileRecording ==
    /\ Cardinality(intervals) <= 1
    /\ intervals \subseteq {durationIntervalRef}
    /\ intervals # {} => Recording
    /\ lastOp = "tick" => Recording

\* The segments that write the log: the three log events and the completed
\* initial load.
LogWriters == {"messageAdded", "messageUpdated", "conversationCleared", "loaded"}

\* C16: the log has a single writer, the host event stream: start(), stop()
\* (a successful append request included), toggle() and suggestion requests
\* and responses leave the local log unchanged; the log changes only when a
\* message-added, message-updated or conversation-cleared event is applied
\* or the initial load completes.
C16_LogSingleWriter ==
    [][/\ lastOp' \notin LogWriters => messages' = messages
       /\ messages' # messages => lastOp' \in LogWriters]_vars

\* A stop() has had its append request returned and the local log still
\* holds no entry: the message reaches the log only through the host.
C16_Witness ==
    /\ lastOp = "appendReturned"
    /\ loadTask = "done"
    /\ messages = <<>>

\* C17: the log never reorders or deduplicates and applies host events in
\* delivery order: each message-added event appends exactly one entry, the
\* payload of the oldest event in flight, at the end of the log, also when
\* an entry with the same identifier is present, and leaves all earlier
\* entries and their order unchanged.
C17_MessageAddedAppendsOne ==
    [][lastOp' = "messageAdded" =>
          /\ Len(messages') = Len(messages) + 1
          /\ SubSeq(messages', 1, Len(messages)) = messages
          /\ messages'[Len(messages')] = Head(hostEvents).message]_vars

\* A message-added event was applied to a log that already held an entry
\* with its identifier: the log holds both.
C17_Witness ==
    /\ lastOp = "messageAdded"
    /\ Len(messages) = 2
    /\ messages[1].id = messages[2].id

\* C18: a message-updated event is a targeted update by identifier: the
\* entry whose identifier matches the pushed message takes its text and
\* edited flag and keeps its own identifier, timestamp and position; every
\* other entry and the log length are unchanged, and an event whose
\* identifier matches no entry leaves the log unchanged.
C18_MessageUpdatedByIdentifier ==
    [][lastOp' = "messageUpdated" =>
          \E message \in UpdatedMessages :
             /\ Len(messages') = Len(messages)
             /\ \A i \in 1..Len(messages) :
                   IF messages[i].id = message.id
                   THEN /\ messages'[i].text = message.text
                        /\ messages'[i].edited = message.edited
                        /\ messages'[i].id = messages[i].id
                        /\ messages'[i].timestamp = messages[i].timestamp
                   ELSE messages'[i] = messages[i]]_vars

\* C19: in every reachable state no two entries of the log have the same
\* identifier, after any sequence of initial load, message-added,
\* message-updated and conversation-cleared events delivered by the host.
C19_IdentifiersUnique ==
    \A i, j \in 1..Len(messages) : messages[i].id = messages[j].id => i = j

\* C20: the local log mirrors the canonical store: once the initial load has
\* completed and every push event the host emitted has been applied, the
\* local log equals the host's message sequence, for every interleaving of
\* the load result with the events. (The host's store is empty at
\* activation, so when the load fails the events applied make up the whole
\* of the host's sequence.)
C20_LogMirrorsHost ==
    (loadTask = "done" /\ loadReply = NoReply /\ hostEvents = <<>>) =>
        messages = hostMessages

====
